---- MODULE Spec2Model ----
(***************************************************************************)
(* Model of lib/git-cleanup.js: the exported async function, the command   *)
(* runner wrapper `exec`, the branch list parser, the flag parser and the  *)
(* main-branch resolver.                                                   *)
(*                                                                         *)
(* Strings are sequences of symbols.  A symbol is a piece of text that the *)
(* code never looks inside: "main", "origin/", "HEAD", "branch:", "*",     *)
(* " ", "\n".  Concatenation is \o, `endsWith` is a suffix test on the     *)
(* sequence, `includes('*')` is membership of the symbol "*".              *)
(***************************************************************************)
EXTENDS Integers, Sequences, FiniteSets, TLC

(* ------------------------------ bounds --------------------------------- *)

\* longest argument list handed to the exported function
MaxArgs == 2
\* number of local branch names `git branch` may list
MaxLocal == 3
\* number of remote-tracking refs `git branch -r` may list
MaxRemote == 3
\* invocations of the exported function in one process
MaxRuns == 2
\* longest raw text handed to the branch list parser on its own
MaxRaw == 4

(* ------------------------------ strings -------------------------------- *)

NL == "\n"
\* /\s/ : the whitespace symbols
Whitespace == {" ", "\t", NL}
\* what `.` does not match
LineTerminators == {NL}

RECURSIVE StripLeadingOnly(_)
\* the replacement as it would be with /^\s+/ : leading whitespace only
StripLeadingOnly(str) ==
  IF str = <<>> THEN <<>>
  ELSE IF Head(str) \in Whitespace THEN StripLeadingOnly(Tail(str))
  ELSE str

RECURSIVE StripWhitespace(_)
\* str.replace(/\s/g, '')
StripWhitespace(str) ==
  IF str = <<>> THEN <<>>
  ELSE IF Head(str) \in Whitespace THEN StripWhitespace(Tail(str))
  ELSE <<Head(str)>> \o StripWhitespace(Tail(str))

RECURSIVE SplitLines(_, _)
\* output.split('\n'), `cur` being the line read so far
SplitLines(output, cur) ==
  IF output = <<>> THEN <<cur>>
  ELSE IF Head(output) = NL THEN <<cur>> \o SplitLines(Tail(output), <<>>)
  ELSE SplitLines(Tail(output), Append(cur, Head(output)))

RECURSIVE FilterNonEmpty(_)
\* .filter((str) => str)
FilterNonEmpty(strs) ==
  IF strs = <<>> THEN <<>>
  ELSE IF Head(strs) = <<>> THEN FilterNonEmpty(Tail(strs))
  ELSE <<Head(strs)>> \o FilterNonEmpty(Tail(strs))

sanitizeBranchOutput(output) ==
  LET lines == SplitLines(output, <<>>)
      stripped == [i \in 1..Len(lines) |-> StripWhitespace(lines[i])]
  IN FilterNonEmpty(stripped)

\* remoteBranch.endsWith(localBranch)
EndsWithPrefixBug(s, suffix) ==
  /\ Len(suffix) <= Len(s)
  /\ SubSeq(s, 1, Len(suffix)) = suffix

endsWith(s, suffix) ==
  /\ Len(suffix) <= Len(s)
  /\ SubSeq(s, Len(s) - Len(suffix) + 1, Len(s)) = suffix

\* localBranch.includes('*')
includesStar(s) == \E i \in 1..Len(s) : s[i] = "*"

(* ------------------------------- flags --------------------------------- *)

flagNames == {"HELP", "DRY_RUN", "FORCE", "HEAD"}

\* the table as it would be with the short key of HELP left out
availableFlagsNoShortHelp ==
  << [name |-> "HELP",    keys |-> {<<"--help">>},            hasValue |-> FALSE],
     [name |-> "DRY_RUN", keys |-> {<<"--dry-run">>},         hasValue |-> FALSE],
     [name |-> "FORCE",   keys |-> {<<"-f">>, <<"--force">>}, hasValue |-> FALSE],
     [name |-> "HEAD",    keys |-> {<<"--head">>},            hasValue |-> TRUE] >>

availableFlags ==
  << [name |-> "HELP",    keys |-> {<<"-h">>, <<"--help">>},  hasValue |-> FALSE],
     [name |-> "DRY_RUN", keys |-> {<<"--dry-run">>},         hasValue |-> FALSE],
     [name |-> "FORCE",   keys |-> {<<"-f">>, <<"--force">>}, hasValue |-> FALSE],
     [name |-> "HEAD",    keys |-> {<<"--head">>},            hasValue |-> TRUE] >>

\* A JavaScript value held by a flag: undefined, true, or a string.
Undefined == [kind |-> "undefined", str |-> <<>>]
JsTrue == [kind |-> "true", str |-> <<>>]
JsString(s) == [kind |-> "string", str |-> s]
\* truthiness: undefined and '' are falsy
Truthy(v) == v.kind = "true" \/ (v.kind = "string" /\ v.str # <<>>)

NoFlags == [n \in flagNames |-> Undefined]

\* availableFlags.find(...) of line 53: index of the first applicable flag, 0 if none
applicableFlag(currentFlags, arg) ==
  LET hits == {j \in 1..Len(availableFlags) :
                 /\ ~Truthy(currentFlags[availableFlags[j].name])
                 /\ arg \in availableFlags[j].keys}
  IN IF hits = {} THEN 0 ELSE CHOOSE j \in hits : \A k \in hits : j <= k

RECURSIVE reduceFlags(_, _, _)
\* the reducer of getActiveFlags, from position `index` (1-based) on
reduceFlags(args, index, currentFlags) ==
  IF index > Len(args) THEN currentFlags
  ELSE LET j == applicableFlag(currentFlags, args[index])
       IN IF j = 0 THEN reduceFlags(args, index + 1, currentFlags)
          ELSE LET value == IF availableFlags[j].hasValue
                            THEN (IF index + 1 <= Len(args)
                                  THEN JsString(args[index + 1])
                                  ELSE Undefined)
                            ELSE JsTrue
               IN reduceFlags(args, index + 1,
                     [currentFlags EXCEPT ![availableFlags[j].name] = value])

getActiveFlags(args) == reduceFlags(args, 1, NoFlags)

(* ------------------------ main-branch pattern --------------------------- *)

\* the pattern as it would be without the colon: HEAD\sbranch\s(.+)
headBranchAtNoColon(text, i) ==
  /\ i + 4 <= Len(text)
  /\ text[i] = "HEAD"
  /\ text[i + 1] \in Whitespace
  /\ text[i + 2] \in {"branch:", "branch"}
  /\ text[i + 3] \in Whitespace
  /\ text[i + 4] \notin LineTerminators

\* HEAD\sbranch:\s(.+) matching at position i (1-based) of text
headBranchAt(text, i) ==
  /\ i + 4 <= Len(text)
  /\ text[i] = "HEAD"
  /\ text[i + 1] \in Whitespace
  /\ text[i + 2] = "branch:"
  /\ text[i + 3] \in Whitespace
  /\ text[i + 4] \notin LineTerminators

\* the greedy (.+) starting at position from: last position of the run of
\* symbols that are not line terminators
captureEnd(text, from) ==
  CHOOSE e \in from..Len(text) :
    /\ \A k \in from..e : text[k] \notin LineTerminators
    /\ (e = Len(text) \/ text[e + 1] \in LineTerminators)

\* where the search of the pattern starts: lastIndex, counted from 0
searchFrom(lastIdx) == lastIdx + 1

\* HEAD_BRANCH_REGEX.exec(text): the pattern carries the `g` flag, so the
\* search starts at the regex object's lastIndex and leaves it behind the
\* match, or at 0 when nothing matches
regexExec(text, lastIdx) ==
  LET starts == {i \in searchFrom(lastIdx)..Len(text) : headBranchAt(text, i)}
  IN IF starts = {}
     THEN [matched |-> FALSE, group |-> <<>>, lastIndex |-> 0]
     ELSE LET i == CHOOSE j \in starts : \A k \in starts : j <= k
              e == captureEnd(text, i + 4)
          IN [matched |-> TRUE, group |-> SubSeq(text, i + 4, e), lastIndex |-> e]

(* --------------------------- command runner ----------------------------- *)

\* what the child process can do: fail, succeed silently, or succeed while
\* writing to stderr
Outcomes == {"error", "ok", "okStderr"}

\* exec(command, { ignoreStderr }): how the returned promise settles
execStrictFetch(outcome, ignoreStderr) ==
  IF outcome = "error" THEN "reject"
  ELSE IF outcome = "okStderr" THEN "reject"
  ELSE "resolve"

\* exec as it would be with `if ((error || stderr) && !ignoreStderr)`: the
\* option swallows the failure of the command too
execIgnoreAll(outcome, ignoreStderr) ==
  IF ignoreStderr THEN "resolve"
  ELSE IF outcome = "ok" THEN "resolve"
  ELSE "reject"

exec(outcome, ignoreStderr) ==
  IF outcome = "error" THEN "reject"
  ELSE IF outcome = "okStderr" /\ ~ignoreStderr THEN "reject"
  ELSE "resolve"

cmdRemoteShow == <<"git remote show origin">>
cmdBranch == <<"git branch">>
cmdFetch == <<"git fetch -p">>
cmdBranchR == <<"git branch -r">>

\* the command as it would be with the two variants swapped
deleteCommandSwapped(fl, branch) ==
  <<"git branch ", IF Truthy(fl["FORCE"]) THEN "-d" ELSE "-D", " ">> \o branch

\* `git branch ${flags[flagNames.FORCE] ? '-D' : '-d'} ${branch}`
deleteCommand(fl, branch) ==
  <<"git branch ", IF Truthy(fl["FORCE"]) THEN "-D" ELSE "-d", " ">> \o branch

(* ------------------- what the environment can hand in ------------------- *)

ArgTokens == {<<"-h">>, <<"--dry-run">>, <<"--force">>, <<"--head">>, <<"main">>}
ArgLists == UNION {[1..n -> ArgTokens] : n \in 0..MaxArgs}

\* `git remote show origin`
RemoteInfos ==
  { <<>>,
    <<"* remote origin", NL, " ", "HEAD", " ", "branch:", " ", "main", NL,
      " ", "Remote branches:", NL>>,
    <<"* remote origin", NL, " ", "HEAD", " ", "branch:", " ", "feat", NL>>,
    <<"* remote origin", NL, " ", "HEAD", " ", "branch", " ",
      "(remote HEAD is ambiguous, may be one of the following):", NL,
      " ", "main", NL, " ", "feat", NL>>,
    <<"* remote origin", NL, " ", "HEAD", " ", "branch:", " ", "(unknown)", NL>> }

LocalNames == << <<"main">>, <<"feat">>, <<"fix">>, <<"old">> >>

RemoteLines ==
  << <<"origin/", "main">>,
     <<"origin/", "feat">>,
     <<"origin/", "hot", "fix">>,
     <<"origin/", "HEAD", " ", "->", " ", "origin/", "main">> >>

MinOf(a, b) == IF a <= b THEN a ELSE b

RECURSIVE listingText(_, _, _, _)
\* one line per chosen name, in listing order; the line of `current` carries
\* the marker "* ", the other lines two spaces
listingText(names, chosen, current, i) ==
  IF i > Len(names) THEN <<>>
  ELSE (IF i \in chosen
        THEN (IF i = current THEN <<"*", " ">> ELSE <<" ", " ">>)
             \o names[i] \o <<NL>>
        ELSE <<>>)
       \o listingText(names, chosen, current, i + 1)

\* `git branch`: every branch once, at most one of them checked out
LocalStdouts ==
  LET n == MinOf(MaxLocal, Len(LocalNames))
  IN {listingText(LocalNames, chosen, current, 1) :
        chosen \in SUBSET (1..n), current \in 0..n}

\* `git branch -r`
RemoteStdouts ==
  LET n == MinOf(MaxRemote, Len(RemoteLines))
  IN {listingText(RemoteLines, chosen, 0, 1) : chosen \in SUBSET (1..n)}

(* ------------------------------- state ---------------------------------- *)

VARIABLES
  pc,                    \* where the exported function stands
  runs,                  \* invocations of the exported function so far
  lastIndex,             \* HEAD_BRANCH_REGEX.lastIndex, kept by the module
  args,                  \* the argument tokens of this invocation
  flags,                 \* getActiveFlags(arguments)
  remoteInfo,            \* stdout of `git remote show origin`
  mainBranchName,        \* <<>> until resolved
  localStdout,           \* stdout of `git branch`
  localBranches,
  remoteBranches,
  branchesToDelete,
  amountDeletedBranches,
  idx,                   \* candidates whose .then callback has run
  cmds,                  \* commands handed to child_process.exec, in order
  inflight,              \* commands whose callback has not been called yet
  completed,             \* [cmd, outcome] of every command that has ended
  caught,                \* the top-level catch block has run
  reported,              \* the count and noun of the final log line, or NoReport
  prevRun                \* history: what the invocation before this one
                         \* was answered by the remote query and resolved

vars == <<pc, runs, lastIndex, args, flags, remoteInfo, mainBranchName,
          localStdout, localBranches, remoteBranches, branchesToDelete,
          amountDeletedBranches, idx, cmds, inflight, completed, caught,
          reported, prevRun>>

NoReport == [count |-> -1, noun |-> ""]
NoRun == [queried |-> FALSE, info |-> <<>>, main |-> <<>>]

Init ==
  /\ pc = "idle"
  /\ runs = 0
  /\ lastIndex = 0
  /\ args = <<>>
  /\ flags = NoFlags
  /\ remoteInfo = <<>>
  /\ mainBranchName = <<>>
  /\ localStdout = <<>>
  /\ localBranches = <<>>
  /\ remoteBranches = <<>>
  /\ branchesToDelete = <<>>
  /\ amountDeletedBranches = 0
  /\ idx = 0
  /\ cmds = <<>>
  /\ inflight = <<>>
  /\ completed = <<>>
  /\ caught = FALSE
  /\ reported = NoReport
  /\ prevRun = NoRun

\* a rejected await inside `try`: console.error(error) in the catch block
Catch ==
  /\ caught' = TRUE
  /\ pc' = "done"

(* ------------------------- the exported function ------------------------ *)

\* getMainBranch, lines 67-69, and the call that follows it
Start(a) ==
  /\ pc = "idle"
  /\ runs < MaxRuns
  /\ runs' = runs + 1
  /\ args' = a
  /\ flags' = getActiveFlags(a)
  /\ remoteInfo' = <<>>
  /\ localStdout' = <<>>
  /\ localBranches' = <<>>
  /\ remoteBranches' = <<>>
  /\ branchesToDelete' = <<>>
  /\ amountDeletedBranches' = 0
  /\ idx' = 0
  /\ completed' = <<>>
  /\ caught' = FALSE
  /\ reported' = NoReport
  /\ lastIndex' = lastIndex
  /\ prevRun' = prevRun
  /\ IF Truthy(flags'["HELP"])
     THEN /\ pc' = "done"
          /\ mainBranchName' = <<>>
          /\ cmds' = <<>>
          /\ inflight' = <<>>
     ELSE IF Truthy(flags'["HEAD"])
     THEN /\ mainBranchName' = flags'["HEAD"].str
          /\ cmds' = <<cmdBranch>>
          /\ inflight' = <<cmdBranch>>
          /\ pc' = "awaitLocal"
     ELSE /\ mainBranchName' = <<>>
          /\ cmds' = <<cmdRemoteShow>>
          /\ inflight' = <<cmdRemoteShow>>
          /\ pc' = "awaitRemoteShow"

\* `git remote show origin` ends: getMainBranch lines 70-78, then lines 92-93
RemoteShowDone(outcome, text) ==
  /\ pc = "awaitRemoteShow"
  /\ completed' = Append(completed, [cmd |-> cmdRemoteShow, outcome |-> outcome])
  /\ inflight = <<cmdRemoteShow>>
  /\ IF exec(outcome, FALSE) = "reject"
     THEN /\ Catch
          /\ inflight' = <<>>
          /\ UNCHANGED <<cmds, lastIndex, remoteInfo, mainBranchName>>
     ELSE LET regexResult == regexExec(text, lastIndex)
          IN /\ remoteInfo' = text
             /\ lastIndex' = regexResult.lastIndex
             /\ caught' = caught
             /\ IF ~regexResult.matched
                THEN /\ pc' = "done"
                     /\ inflight' = <<>>
                     /\ UNCHANGED <<cmds, mainBranchName>>
                ELSE /\ mainBranchName' = regexResult.group
                     /\ cmds' = Append(cmds, cmdBranch)
                     /\ inflight' = <<cmdBranch>>
                     /\ pc' = "awaitLocal"
  /\ UNCHANGED <<prevRun, runs, args, flags, localStdout, localBranches, remoteBranches,
                 branchesToDelete, amountDeletedBranches, idx, reported>>

\* localBranches.find(localBranch => localBranch.includes('*'))
RECURSIVE findCurrent(_)
findCurrent(branches) ==
  IF branches = <<>> THEN Undefined
  ELSE IF includesStar(Head(branches)) THEN JsString(Head(branches))
  ELSE findCurrent(Tail(branches))

\* the gate as it would be if it asked whether main is listed at all
notOnMainListed(branches, main) ==
  ~(\E i \in 1..Len(branches) : branches[i] \in {main, <<"*">> \o main})

\* currentBranch !== `*${mainBranchName}`
notOnMain(branches, main) ==
  LET currentBranch == findCurrent(branches)
  IN ~(currentBranch.kind = "string" /\ currentBranch.str = <<"*">> \o main)

\* `git branch` ends: lines 94-100
LocalDone(outcome, text) ==
  /\ pc = "awaitLocal"
  /\ completed' = Append(completed, [cmd |-> cmdBranch, outcome |-> outcome])
  /\ inflight = <<cmdBranch>>
  /\ IF exec(outcome, FALSE) = "reject"
     THEN /\ Catch
          /\ inflight' = <<>>
          /\ UNCHANGED <<cmds, localStdout, localBranches>>
     ELSE /\ localStdout' = text
          /\ localBranches' = sanitizeBranchOutput(text)
          /\ caught' = caught
          /\ IF notOnMain(localBranches', mainBranchName)
             THEN /\ pc' = "done"
                  /\ inflight' = <<>>
                  /\ cmds' = cmds
             ELSE /\ cmds' = Append(cmds, cmdFetch)
                  /\ inflight' = <<cmdFetch>>
                  /\ pc' = "awaitFetch"
  /\ UNCHANGED <<prevRun, runs, lastIndex, args, flags, remoteInfo, mainBranchName,
                 remoteBranches, branchesToDelete, amountDeletedBranches, idx,
                 reported>>

\* `git fetch -p` ends as it would with the rejection swallowed
\* (exec(...).catch(() => {})): the remote listing follows in any case
FetchDoneSwallowed(outcome) ==
  /\ pc = "awaitFetch"
  /\ completed' = Append(completed, [cmd |-> cmdFetch, outcome |-> outcome])
  /\ inflight = <<cmdFetch>>
  /\ caught' = caught
  /\ cmds' = Append(cmds, cmdBranchR)
  /\ inflight' = <<cmdBranchR>>
  /\ pc' = "awaitRemote"
  /\ UNCHANGED <<prevRun, runs, lastIndex, args, flags, remoteInfo, mainBranchName,
                 localStdout, localBranches, remoteBranches, branchesToDelete,
                 amountDeletedBranches, idx, reported>>

\* `git fetch -p` ends: lines 100-101
FetchDone(outcome) ==
  /\ pc = "awaitFetch"
  /\ completed' = Append(completed, [cmd |-> cmdFetch, outcome |-> outcome])
  /\ inflight = <<cmdFetch>>
  /\ IF exec(outcome, TRUE) = "reject"
     THEN /\ Catch
          /\ inflight' = <<>>
          /\ cmds' = cmds
     ELSE /\ caught' = caught
          /\ cmds' = Append(cmds, cmdBranchR)
          /\ inflight' = <<cmdBranchR>>
          /\ pc' = "awaitRemote"
  /\ UNCHANGED <<prevRun, runs, lastIndex, args, flags, remoteInfo, mainBranchName,
                 localStdout, localBranches, remoteBranches, branchesToDelete,
                 amountDeletedBranches, idx, reported>>

\* the predicate of the filter of lines 103-105
staleUnprotected(localBranch, remotes, main) ==
  ~(\E i \in 1..Len(remotes) : endsWith(remotes[i], localBranch))

stale(localBranch, remotes, main) ==
  /\ ~(\E i \in 1..Len(remotes) : endsWith(remotes[i], localBranch))
  /\ localBranch # <<"*">> \o main

RECURSIVE filterStale(_, _, _)
\* localBranches.filter(...)
filterStale(locals, remotes, main) ==
  IF locals = <<>> THEN <<>>
  ELSE (IF stale(Head(locals), remotes, main) THEN <<Head(locals)>> ELSE <<>>)
       \o filterStale(Tail(locals), remotes, main)

\* `git branch -r` ends: lines 102-111
RemoteDone(outcome, text) ==
  /\ pc = "awaitRemote"
  /\ completed' = Append(completed, [cmd |-> cmdBranchR, outcome |-> outcome])
  /\ inflight = <<cmdBranchR>>
  /\ inflight' = <<>>
  /\ cmds' = cmds
  /\ IF exec(outcome, FALSE) = "reject"
     THEN /\ Catch
          /\ UNCHANGED <<remoteBranches, branchesToDelete, amountDeletedBranches>>
     ELSE /\ remoteBranches' = sanitizeBranchOutput(text)
          /\ branchesToDelete' =
               filterStale(localBranches, remoteBranches', mainBranchName)
          /\ caught' = caught
          /\ IF Len(branchesToDelete') = 0
             THEN /\ pc' = "done"
                  /\ amountDeletedBranches' = amountDeletedBranches
             ELSE /\ amountDeletedBranches' = Len(branchesToDelete')
                  /\ pc' = "then"
  /\ UNCHANGED <<prevRun, runs, lastIndex, args, flags, remoteInfo, mainBranchName,
                 localStdout, localBranches, idx, reported>>

\* line 118 left out: the skipped candidate stays counted
skippedKept(n) == n

\* amountDeletedBranches-- of line 118
skipped(n) == n - 1

\* line 121 without `return`: the chain does not wait for the command
afterIssueNoReturn == "then"

\* `return exec(deleteCommand)`: the chain goes on when the command has ended
afterIssue == "awaitDelete"

\* the .then callback of the next candidate runs: lines 114-121
DeleteStep ==
  /\ pc = "then"
  /\ idx < Len(branchesToDelete)
  /\ idx' = idx + 1
  /\ LET branch == branchesToDelete[idx + 1]
     IN IF Truthy(flags["DRY_RUN"])
        THEN /\ amountDeletedBranches' = skipped(amountDeletedBranches)
             /\ pc' = "then"
             /\ UNCHANGED <<cmds, inflight>>
        ELSE /\ cmds' = Append(cmds, deleteCommand(flags, branch))
             /\ inflight' = Append(inflight, deleteCommand(flags, branch))
             /\ pc' = afterIssue
             /\ amountDeletedBranches' = amountDeletedBranches
  /\ UNCHANGED <<prevRun, runs, lastIndex, args, flags, remoteInfo, mainBranchName,
                 localStdout, localBranches, remoteBranches, branchesToDelete, completed,
                 caught, reported>>

\* the delete command ends as it would without the .catch of line 122: the
\* rejection reaches the catch block of line 133
DeleteDoneNoCatch(outcome) ==
  /\ pc = "awaitDelete"
  /\ Len(inflight) = 1
  /\ completed' = Append(completed, [cmd |-> inflight[1], outcome |-> outcome])
  /\ inflight' = <<>>
  /\ amountDeletedBranches' = amountDeletedBranches
  /\ IF exec(outcome, FALSE) = "reject"
     THEN Catch
     ELSE pc' = "then" /\ caught' = caught
  /\ UNCHANGED <<prevRun, runs, lastIndex, args, flags, remoteInfo, mainBranchName,
                 localStdout, localBranches, remoteBranches, branchesToDelete, idx, cmds,
                 reported>>

\* the decrement as it would be if the failure were counted twice
failedTwice(n) == n - 2

\* amountDeletedBranches-- of line 127
failed(n) == n - 1

\* a delete command ends: exec's callback and the .catch of lines 122-129
DeleteDone(outcome) ==
  /\ pc = "awaitDelete"
  /\ Len(inflight) = 1
  /\ completed' = Append(completed, [cmd |-> inflight[1], outcome |-> outcome])
  /\ inflight' = <<>>
  /\ amountDeletedBranches' =
       IF exec(outcome, FALSE) = "reject"
       THEN failed(amountDeletedBranches)
       ELSE amountDeletedBranches
  /\ pc' = "then"
  /\ UNCHANGED <<prevRun, runs, lastIndex, args, flags, remoteInfo, mainBranchName,
                 localStdout, localBranches, remoteBranches, branchesToDelete, idx, cmds,
                 caught, reported>>

\* the noun as it would be with `<= 1`
nounSingularUpToOne(n) == IF n <= 1 THEN "branch" ELSE "branches"

\* amountDeletedBranches === 1 ? 'branch' : 'branches'
noun(n) == IF n = 1 THEN "branch" ELSE "branches"

\* the chain of line 111 has settled: line 132
Report ==
  /\ pc = "then"
  /\ idx = Len(branchesToDelete)
  /\ reported' = [count |-> amountDeletedBranches,
                  noun |-> noun(amountDeletedBranches)]
  /\ pc' = "done"
  /\ UNCHANGED <<prevRun, runs, lastIndex, args, flags, remoteInfo, mainBranchName,
                 localStdout, localBranches, remoteBranches, branchesToDelete,
                 amountDeletedBranches, idx, cmds, inflight, completed, caught>>

\* the promise of the exported function settles; the locals of the
\* invocation are gone, HEAD_BRANCH_REGEX stays with the module
Return ==
  /\ pc = "done"
  /\ pc' = "idle"
  /\ args' = <<>>
  /\ flags' = NoFlags
  /\ remoteInfo' = <<>>
  /\ mainBranchName' = <<>>
  /\ localStdout' = <<>>
  /\ localBranches' = <<>>
  /\ remoteBranches' = <<>>
  /\ branchesToDelete' = <<>>
  /\ amountDeletedBranches' = 0
  /\ idx' = 0
  /\ cmds' = <<>>
  /\ completed' = <<>>
  /\ caught' = FALSE
  /\ reported' = NoReport
  /\ UNCHANGED <<prevRun, runs, lastIndex, inflight>>

\* Return, with the history of the invocation written down
ReturnRecorded ==
  /\ pc = "done"
  /\ pc' = "idle"
  /\ prevRun' = [queried |-> \E i \in 1..Len(completed) :
                               completed[i] = [cmd |-> cmdRemoteShow, outcome |-> "ok"],
                 info |-> remoteInfo,
                 main |-> mainBranchName]
  /\ args' = <<>>
  /\ flags' = NoFlags
  /\ remoteInfo' = <<>>
  /\ mainBranchName' = <<>>
  /\ localStdout' = <<>>
  /\ localBranches' = <<>>
  /\ remoteBranches' = <<>>
  /\ branchesToDelete' = <<>>
  /\ amountDeletedBranches' = 0
  /\ idx' = 0
  /\ cmds' = <<>>
  /\ completed' = <<>>
  /\ caught' = FALSE
  /\ reported' = NoReport
  /\ UNCHANGED <<runs, lastIndex, inflight>>

Next ==
  \/ \E a \in ArgLists : Start(a)
  \/ \E o \in Outcomes, t \in RemoteInfos : RemoteShowDone(o, t)
  \/ \E o \in Outcomes, t \in LocalStdouts : LocalDone(o, t)
  \/ \E o \in Outcomes : FetchDone(o)
  \/ \E o \in Outcomes, t \in RemoteStdouts : RemoteDone(o, t)
  \/ DeleteStep
  \/ \E o \in Outcomes : DeleteDone(o)
  \/ Report
  \/ Return

Spec == Init /\ [][Next]_vars

\* Successive invocations without a head override, with the history kept.
RepeatArgs == {<<>>, << <<"--force">> >>}

NextRepeat ==
  \/ \E a \in RepeatArgs : Start(a)
  \/ \E o \in Outcomes, t \in RemoteInfos : RemoteShowDone(o, t)
  \/ \E o \in Outcomes, t \in LocalStdouts : LocalDone(o, t)
  \/ \E o \in Outcomes : FetchDone(o)
  \/ \E o \in Outcomes, t \in RemoteStdouts : RemoteDone(o, t)
  \/ DeleteStep
  \/ \E o \in Outcomes : DeleteDone(o)
  \/ Report
  \/ ReturnRecorded

SpecRepeat == Init /\ [][NextRepeat]_vars

\* The branch list parser on its own, over every text of up to MaxRaw symbols.
RawSymbols == {"a", "*", " ", "\t", NL}
RawTexts == UNION {[1..n -> RawSymbols] : n \in 0..MaxRaw}

InitParse ==
  /\ pc = "parse"
  /\ runs = 0
  /\ lastIndex = 0
  /\ args = <<>>
  /\ flags = NoFlags
  /\ remoteInfo = <<>>
  /\ mainBranchName = <<>>
  /\ localStdout \in RawTexts
  /\ localBranches = <<>>
  /\ remoteBranches = <<>>
  /\ branchesToDelete = <<>>
  /\ amountDeletedBranches = 0
  /\ idx = 0
  /\ cmds = <<>>
  /\ inflight = <<>>
  /\ completed = <<>>
  /\ caught = FALSE
  /\ reported = NoReport
  /\ prevRun = NoRun

\* line 94 alone
Parse ==
  /\ pc = "parse"
  /\ localBranches' = sanitizeBranchOutput(localStdout)
  /\ pc' = "parsed"
  /\ UNCHANGED <<prevRun, runs, lastIndex, args, flags, remoteInfo, mainBranchName,
                 localStdout, remoteBranches, branchesToDelete,
                 amountDeletedBranches, idx, cmds, inflight, completed, caught,
                 reported>>

NextParse == Parse

SpecParse == InitParse /\ [][NextParse]_vars

\* some delete command in flight ends
DeleteEnds == \E o \in Outcomes : DeleteDone(o)

\* The event loop runs every callback that is ready (the .then callbacks of
\* the chain and the continuation after it), and every delete command that
\* was issued ends.
LiveSpec ==
  /\ Init /\ [][Next]_vars
  /\ WF_vars(DeleteStep)
  /\ WF_vars(DeleteEnds)
  /\ WF_vars(Report)

(* ------------------------------ properties ------------------------------ *)

IsDelete(c) == Len(c) >= 3 /\ c[1] = "git branch " /\ c[2] \in {"-d", "-D"}
DeleteTarget(c) == SubSeq(c, 4, Len(c))
DeleteIndexes == {i \in 1..Len(cmds) : IsDelete(cmds[i])}
Marked(name) == <<"*">> \o name
\* the command c has ended with the child process reporting `outcome`
Ended(c, outcome) ==
  \E i \in 1..Len(completed) :
    completed[i].cmd = c /\ completed[i].outcome = outcome
HeadGiven == \E i \in 1..Len(args) : args[i] = <<"--head">>

\* C1: no delete command (git branch -d / -D) is ever issued whose target is
\* the resolved main branch, marked (*main) or unmarked (main), whether the
\* name was detected or given with --head.
C1_MainProtected ==
  \A i \in DeleteIndexes :
    /\ DeleteTarget(cmds[i]) # mainBranchName
    /\ DeleteTarget(cmds[i]) # Marked(mainBranchName)

\* a delete command has been issued while the marked main branch is listed
\* and nothing on the remote side ends with the marked token
C1_Witness ==
  /\ DeleteIndexes # {}
  /\ mainBranchName = <<"main">>
  /\ \E k \in 1..Len(localBranches) : localBranches[k] = Marked(mainBranchName)
  /\ remoteBranches = <<>>

FirstMarked(branches) ==
  IF \E k \in 1..Len(branches) : "*" \in {branches[k][j] : j \in 1..Len(branches[k])}
  THEN LET k == CHOOSE k \in 1..Len(branches) :
                  /\ "*" \in {branches[k][j] : j \in 1..Len(branches[k])}
                  /\ \A m \in 1..(k - 1) :
                       "*" \notin {branches[m][j] : j \in 1..Len(branches[m])}
       IN <<branches[k]>>
  ELSE <<>>
StripMarker(tok) == IF tok # <<>> /\ tok[1] = "*" THEN Tail(tok) ELSE tok
\* the listing has been read and its checked-out token is not main
OffMain ==
  /\ Ended(cmdBranch, "ok")
  /\ \/ FirstMarked(localBranches) = <<>>
     \/ StripMarker(FirstMarked(localBranches)[1]) # mainBranchName

\* C2: if the checked-out token of the local listing, marker stripped, is not
\* the resolved main branch (or no token is marked), the run stops after
\* `git branch`: no fetch, no remote listing, no delete is issued.
C2_ValidatorGate ==
  OffMain =>
    /\ pc = "done"
    /\ inflight = <<>>
    /\ cmds[Len(cmds)] = cmdBranch
    /\ \A i \in 1..Len(cmds) :
         cmds[i] # cmdFetch /\ cmds[i] # cmdBranchR /\ ~IsDelete(cmds[i])

\* the run has stopped at the gate with another branch checked out while
\* main is listed unmarked
C2_Witness ==
  /\ OffMain
  /\ FirstMarked(localBranches) # <<>>
  /\ \E k \in 1..Len(localBranches) : localBranches[k] = mainBranchName
  /\ pc = "done"

\* the text holds a line `HEAD branch: <name>`
HasHeadBranchLine(text) ==
  \E i \in 1..Len(text) :
    /\ i + 4 <= Len(text)
    /\ <<text[i], text[i + 1], text[i + 2], text[i + 3]>>
         = <<"HEAD", " ", "branch:", " ">>
    /\ text[i + 4] # NL

\* C3: without --head, when the remote metadata holds no `HEAD branch: <name>`
\* line the resolution fails and the run ends with no further command: the
\* remote query is the only command of the run.
C3_ResolutionFailure ==
  (~HeadGiven /\ Ended(cmdRemoteShow, "ok") /\ ~HasHeadBranchLine(remoteInfo)) =>
    /\ mainBranchName = <<>>
    /\ pc = "done"
    /\ inflight = <<>>
    /\ cmds = <<cmdRemoteShow>>

\* the remote query answered with a text that mentions HEAD but names no
\* head branch, and the run is over
C3_Witness ==
  /\ ~HeadGiven
  /\ Ended(cmdRemoteShow, "ok")
  /\ ~HasHeadBranchLine(remoteInfo)
  /\ \E i \in 1..Len(remoteInfo) : remoteInfo[i] = "HEAD"
  /\ pc = "done"

FirstHead == CHOOSE i \in 1..Len(args) :
               args[i] = <<"--head">> /\ \A k \in 1..(i - 1) : args[k] # <<"--head">>

\* C4: whenever --head is among the argument tokens, at any position, the
\* resolved main branch is the token that follows it and `git remote show
\* origin` is never issued in that run.
C4_HeadOverride ==
  HeadGiven =>
    /\ \A i \in 1..Len(cmds) : cmds[i] # cmdRemoteShow
    /\ (cmds # <<>> /\ FirstHead < Len(args)) => mainBranchName = args[FirstHead + 1]

DryRunGiven == \E i \in 1..Len(args) : args[i] = <<"--dry-run">>
ForceGiven == \E i \in 1..Len(args) : args[i] = <<"--force">>

\* C5: with --dry-run, with or without --force, no delete command is issued
\* for any candidate and the count of the final report is 0.
C5_DryRun ==
  DryRunGiven =>
    /\ DeleteIndexes = {}
    /\ reported # NoReport => reported.count = 0

\* a forced dry run over two candidates has reported
C5_Witness ==
  /\ DryRunGiven
  /\ ForceGiven
  /\ Len(branchesToDelete) = 2
  /\ reported # NoReport

DeleteCmds == SelectSeq(cmds, IsDelete)
EndedDeletes(outcomes) ==
  {i \in 1..Len(completed) :
     IsDelete(completed[i].cmd) /\ completed[i].outcome \in outcomes}

\* C6: in a run without --dry-run that has candidates, every candidate gets
\* exactly one delete attempt whatever the earlier deletes did, and the count
\* reported equals the number of deletes the command runner resolved.
C6_FailureIsolation ==
  (pc = "done" /\ branchesToDelete # <<>> /\ ~DryRunGiven) =>
    /\ Len(DeleteCmds) = Len(branchesToDelete)
    /\ \A k \in 1..Len(DeleteCmds) :
         DeleteTarget(DeleteCmds[k]) = branchesToDelete[k]
    /\ reported # NoReport
    /\ reported.count = Cardinality(EndedDeletes({"ok"}))

\* the first of two deletes failed, the second was attempted and succeeded
C6_Witness ==
  /\ pc = "done"
  /\ Len(branchesToDelete) = 2
  /\ Len(completed) = 6
  /\ completed[5].outcome = "error"
  /\ completed[6].outcome = "ok"
  /\ IsDelete(completed[6].cmd)
  /\ reported.count = 1

\* C7: at most one delete command is in flight at any time, the deletes are
\* issued in candidate order, and a delete is issued only when every earlier
\* delete has ended.
C7_Sequential ==
  /\ Len(SelectSeq(inflight, IsDelete)) <= 1
  /\ Len(DeleteCmds) <= Len(branchesToDelete)
  /\ \A k \in 1..Len(DeleteCmds) :
       DeleteTarget(DeleteCmds[k]) = branchesToDelete[k]
  /\ Cardinality(EndedDeletes(Outcomes)) >= Len(DeleteCmds) - 1

\* the second delete is in flight after the first has ended in failure
C7_Witness ==
  /\ Len(DeleteCmds) = 2
  /\ inflight = <<DeleteCmds[2]>>
  /\ EndedDeletes({"error"}) # {}

Tokens(seq) == {seq[i] : i \in 1..Len(seq)}
\* some remote name has t as its last symbols
RemoteEndsWith(t) ==
  \E r \in Tokens(remoteBranches) :
    \E k \in 0..Len(r) : [j \in 1..(Len(r) - k) |-> r[k + j]] = t
PositionIn(seq, t) == CHOOSE i \in 1..Len(seq) : seq[i] = t

\* C8: a local token is a deletion candidate if and only if no remote branch
\* name ends with it and it is not the marked main-branch token; candidates
\* keep the order of the local listing.  Local [*main, feat, fix] with remote
\* [origin/main, origin/feat] yields [fix].
C8_BranchDiff ==
  Ended(cmdBranchR, "ok") =>
    /\ \A t \in Tokens(localBranches) :
         t \in Tokens(branchesToDelete)
           <=> (~RemoteEndsWith(t) /\ t # Marked(mainBranchName))
    /\ Tokens(branchesToDelete) \subseteq Tokens(localBranches)
    /\ \A a, b \in 1..Len(branchesToDelete) :
         a < b => PositionIn(localBranches, branchesToDelete[a])
                    < PositionIn(localBranches, branchesToDelete[b])
    /\ (/\ localBranches = <<Marked(<<"main">>), <<"feat">>, <<"fix">>>>
        /\ remoteBranches = <<<<"origin/", "main">>, <<"origin/", "feat">>>>
        /\ mainBranchName = <<"main">>)
         => branchesToDelete = <<<<"fix">>>>

\* the listing of the example has been diffed
C8_Witness ==
  /\ Ended(cmdBranchR, "ok")
  /\ localBranches = <<Marked(<<"main">>), <<"feat">>, <<"fix">>>>
  /\ remoteBranches = <<<<"origin/", "main">>, <<"origin/", "feat">>>>
  /\ mainBranchName = <<"main">>
  /\ branchesToDelete = <<<<"fix">>>>

\* C9: the count of the final report equals the number of candidates that
\* were actually deleted from the repository, whatever each delete command
\* did: failed, succeeded silently, or succeeded with diagnostic output.
C9_CountIsDeleted ==
  reported # NoReport =>
    reported.count = Cardinality(EndedDeletes({"ok", "okStderr"}))

\* the command c, ending with `outcome`, counts as failed
Failed(c, outcome) ==
  outcome = "error" \/ (outcome = "okStderr" /\ c # cmdFetch)

\* C10: when one of `git remote show origin`, `git branch`, `git fetch -p`,
\* `git branch -r` fails, the catch block runs and the run is over: the
\* failed command is the last command issued, and no delete follows.
C10_HardStop ==
  \A i \in 1..Len(completed) :
    (~IsDelete(completed[i].cmd) /\ Failed(completed[i].cmd, completed[i].outcome)) =>
      /\ caught
      /\ pc = "done"
      /\ inflight = <<>>
      /\ i = Len(cmds)
      /\ cmds[i] = completed[i].cmd
      /\ DeleteIndexes = {}

\* the fetch failed after the listing had shown a branch to delete
C10_Witness ==
  /\ Len(completed) >= 1
  /\ completed[Len(completed)] = [cmd |-> cmdFetch, outcome |-> "error"]
  /\ Len(localBranches) >= 2
  /\ caught

\* the commands of the run after the remote query, if there is one
AfterQuery ==
  IF cmds # <<>> /\ cmds[1] = cmdRemoteShow THEN Tail(cmds) ELSE cmds

\* C11: the commands of a run are a prefix of: remote query (left out under
\* an override), local listing, fetch, remote listing, deletes.  A delete is
\* issued only after a resolved main branch, a passed gate, a completed fetch
\* and a successful remote listing; with no candidate no delete is issued.
C11_StageOrder ==
  /\ \A i \in 1..Len(AfterQuery) :
       IF i <= 3 THEN AfterQuery[i] = <<cmdBranch, cmdFetch, cmdBranchR>>[i]
       ELSE IsDelete(AfterQuery[i])
  /\ cmds # <<>> => (cmds[1] = cmdRemoteShow <=> ~Truthy(flags["HEAD"]))
  /\ DeleteIndexes # {} =>
       /\ mainBranchName # <<>>
       /\ cmds[1] = cmdRemoteShow => Ended(cmdRemoteShow, "ok")
       /\ Ended(cmdBranch, "ok")
       /\ ~OffMain
       /\ Ended(cmdFetch, "ok") \/ Ended(cmdFetch, "okStderr")
       /\ Ended(cmdBranchR, "ok")
       /\ branchesToDelete # <<>>
  /\ (Ended(cmdBranchR, "ok") /\ branchesToDelete = <<>>) =>
       DeleteIndexes = {} /\ pc = "done"

\* all five stages have run: query, listing, fetch, remote listing, two deletes
C11_Witness ==
  /\ Len(cmds) = 6
  /\ cmds[1] = cmdRemoteShow
  /\ IsDelete(cmds[5])
  /\ IsDelete(cmds[6])

\* C12: once the deletion pipeline has begun, and every delete command that
\* is issued ends, the run gets to the final report with every candidate
\* processed, whatever deletes fail.
C12_BatchCompletes ==
  (pc \in {"then", "awaitDelete"})
    ~> (reported # NoReport /\ idx = Len(branchesToDelete) /\ inflight = <<>>)

\* the report has been reached although both deletes of the batch failed
C12_Witness ==
  /\ reported # NoReport
  /\ Len(branchesToDelete) = 2
  /\ Cardinality(EndedDeletes({"error"})) = 2

\* C13: a command that exits successfully but writes to stderr counts as
\* failed for every call but `git fetch -p`: a non-delete command ends the
\* run in the catch block, a delete is taken off the count; after a fetch
\* that wrote to stderr the run goes on with `git branch -r`.
C13_StderrPolicy ==
  /\ \A i \in 1..Len(completed) :
       completed[i].outcome = "okStderr" =>
         IF completed[i].cmd = cmdFetch
         THEN Len(cmds) > i /\ cmds[i + 1] = cmdBranchR
         ELSE IF IsDelete(completed[i].cmd)
         THEN ~caught
         ELSE caught /\ pc = "done" /\ Len(cmds) = i
  /\ (reported # NoReport /\ ~DryRunGiven) =>
       reported.count =
         Len(branchesToDelete) - Cardinality(EndedDeletes({"error", "okStderr"}))

\* the fetch wrote to stderr and the remote listing has been asked for
C13_Witness ==
  /\ Ended(cmdFetch, "okStderr")
  /\ cmds[Len(cmds)] = cmdBranchR

\* C14: with --force every delete command of the run is
\* `git branch -D <branch>`, without it every one is `git branch -d <branch>`.
C14_ForceVariant ==
  \A k \in 1..Len(DeleteCmds) :
    DeleteCmds[k] =
      <<"git branch ", IF ForceGiven THEN "-D" ELSE "-d", " ">> \o branchesToDelete[k]

\* two forced deletes have been issued
C14_Witness ==
  /\ ForceGiven
  /\ Len(DeleteCmds) = 2
  /\ DeleteCmds[1][2] = "-D"
  /\ DeleteCmds[2][2] = "-D"

HelpGiven == \E i \in 1..Len(args) : args[i] \in {<<"-h">>, <<"--help">>}

\* C15: with the help flag among the argument tokens, next to whatever other
\* flags, the run returns without handing any command to the command runner.
C15_HelpShortCircuit ==
  HelpGiven => cmds = <<>> /\ inflight = <<>> /\ completed = <<>> /\ pc = "done"

\* help was asked for together with the head override
C15_Witness ==
  /\ HelpGiven
  /\ HeadGiven
  /\ pc = "done"

\* C17: a final count of exactly 1 is reported with the noun `branch`, a
\* count of 0 or of 2 and more with `branches`.
C17_Pluralization ==
  reported # NoReport =>
    /\ reported.count >= 0
    /\ reported.count = 1 => reported.noun = "branch"
    /\ reported.count # 1 => reported.noun = "branches"

\* one of two candidates was deleted and the report says so
C17_Witness ==
  /\ reported = [count |-> 1, noun |-> "branch"]
  /\ Len(branchesToDelete) = 2

\* the candidates that dropped out so far: skipped by the dry run, or their
\* delete command rejected
DroppedSoFar ==
  IF Truthy(flags["DRY_RUN"]) THEN idx
  ELSE Cardinality(EndedDeletes({"error", "okStderr"}))

\* C20: in every state of the deletion pipeline the counter lies between 0
\* and the number of candidates and equals that number less the candidates
\* skipped by the dry run or failed so far, each of them taken off once.
C20_CounterInvariant ==
  (pc \in {"then", "awaitDelete"} \/ reported # NoReport) =>
    /\ 0 <= amountDeletedBranches
    /\ amountDeletedBranches <= Len(branchesToDelete)
    /\ amountDeletedBranches = Len(branchesToDelete) - DroppedSoFar
    /\ DroppedSoFar <= idx

\* in the middle of the batch: the first of two deletes has failed, the
\* second has not been issued
C20_Witness ==
  /\ pc = "then"
  /\ idx = 1
  /\ Len(branchesToDelete) = 2
  /\ amountDeletedBranches = 1
  /\ ~Truthy(flags["DRY_RUN"])

\* position of the token read as the value of --head, 0 if there is none
HeadValuePos == IF HeadGiven /\ FirstHead < Len(args) THEN FirstHead + 1 ELSE 0

\* C19: each flag is set from its first occurrence among the argument
\* tokens, and the token taken as the value of --head sets no other flag:
\* after `--head --force` FORCE is unset.
C19_FlagSet ==
  pc # "idle" =>
    /\ \A j \in 1..Len(availableFlags) :
         ~availableFlags[j].hasValue =>
           (Truthy(flags[availableFlags[j].name])
              <=> \E k \in 1..Len(args) :
                    k # HeadValuePos /\ args[k] \in availableFlags[j].keys)
    /\ HeadValuePos # 0 => flags["HEAD"] = JsString(args[HeadValuePos])

NonBlank(sym) == sym \notin {" ", "\t", "\n"}
\* position i holds the first non-blank symbol of its line
OpensToken(text, i) ==
  /\ NonBlank(text[i])
  /\ \A k \in 1..(i - 1) :
       NonBlank(text[k]) => \E m \in (k + 1)..(i - 1) : text[m] = "\n"
RECURSIVE Flatten(_)
Flatten(seqs) == IF seqs = <<>> THEN <<>> ELSE Head(seqs) \o Flatten(Tail(seqs))

\* C16: for every raw text the parsed sequence holds no empty token and no
\* token with a whitespace symbol; it holds one token per line that has a
\* non-blank symbol, in the order of the lines (the tokens put end to end
\* are the text without its whitespace); the empty text gives no token.
C16_Parser ==
  pc = "parsed" =>
    /\ \A k \in 1..Len(localBranches) :
         /\ localBranches[k] # <<>>
         /\ \A j \in 1..Len(localBranches[k]) : NonBlank(localBranches[k][j])
    /\ Flatten(localBranches) = SelectSeq(localStdout, NonBlank)
    /\ Len(localBranches)
         = Cardinality({i \in 1..Len(localStdout) : OpensToken(localStdout, i)})
    /\ localStdout = <<>> => localBranches = <<>>

\* a marked line with a blank inside, and a blank line after it, were parsed
C16_Witness ==
  /\ pc = "parsed"
  /\ localStdout = <<"*", " ", "a", "\n">>
  /\ localBranches = << <<"*", "a">> >>

\* C18: nothing is carried from one invocation to the next: two successive
\* invocations without --head that get the same remote metadata text, holding
\* a `HEAD branch: <name>` line, resolve the same main branch name.
C18_NoCarriedState ==
  (/\ ~HeadGiven
   /\ Ended(cmdRemoteShow, "ok")
   /\ HasHeadBranchLine(remoteInfo)
   /\ prevRun.queried
   /\ prevRun.info = remoteInfo)
    => mainBranchName = prevRun.main

====
